---- MODULE Spec2Model ----
(***************************************************************************)
(* Feed refresh, article de-duplication and feed deletion of the           *)
(* newsletter application, over the RssFeed and RssArticle collections.    *)
(*                                                                         *)
(* Every call of a server action is a task; a task takes one step per      *)
(* database round trip (each `await` on a collection), so the steps of     *)
(* concurrent calls interleave exactly where the code awaits.              *)
(***************************************************************************)
EXTENDS Integers, Sequences, FiniteSets, TLC

\* ------------------------------------------------------------------ bounds
NumTasks == 2          \* calls of server actions in one behaviour
NumFeeds == 2          \* RssFeed records that exist initially

Tasks   == 1..NumTasks
\* call 0 is the one made by the generation request (prepareFeedsAndArticles,
\* or its getFeedsToRefresh alone)
Calls   == 0..NumTasks
FeedIds == 1..NumFeeds
\* createRssArticle is keyed by the GUID: the interleaved calls of Spec all
\* concern one GUID, the sequential calls of SpecSeq two
Guids    == {1}
SeqGuids == {1, 2}
Dates   == {1, 2}      \* publication dates (days)
\* versions of the display metadata (title, description, link, image,
\* language) an origin serves; version 1 is the one stored at subscription
Metas   == {1, 2}
NULL    == -1          \* lastFetched of a feed that was never fetched
MaxTicks == 4          \* hours the clock advances
MaxLimit == 2          \* largest limit passed to getArticlesByFeedsAndDateRange
MaxRetries == 2        \* clicks on Retry Generation in one page load

\* the clock advances in hours
HOUR_MS == 60 * 60 * 1000

\* lib/rss/feed-refresh.ts
CACHE_WINDOW == 3 * 60 * 60 * 1000
ARTICLE_LIMIT == 100

VARIABLES
    feeds,      \* RssFeed collection: feed id -> [url, userId, lastFetched]
    articles,   \* RssArticle collection: set of documents
    nextId,     \* next ObjectId handed out by insertOne
    now,        \* the clock (ms)
    task,       \* the calls: task id -> record
    newsletters,\* Newsletter collection: set of documents
    settings,   \* UserSettings collection: set of documents
    page        \* the newsletter generation page of one browser tab

vars == <<feeds, articles, nextId, now, task, newsletters, settings, page>>

\* ------------------------------------------------------------ array helpers
ToSet(s) == {s[i] : i \in 1..Len(s)}

\* a membership test that always answers yes
AlwaysIncluded(s, x) == TRUE

\* Array.prototype.includes
Includes(s, x) == \E i \in 1..Len(s) : s[i] = x

\* an update with $set in place of $addToSet
SetOnly(s, x) == <<x>>

\* an update with $push in place of $addToSet
PushAlways(s, x) == Append(s, x)

\* MongoDB $addToSet on an array field
AddToSet(s, x) == IF Includes(s, x) THEN s ELSE Append(s, x)

\* MongoDB $pull of one value from an array field
Pull(s, x) == SelectSeq(s, LAMBDA y : y # x)

\* ------------------------------------------------------- RssArticle queries
\* find({guid})
ByGuid(coll, g) == {a \in coll : a.guid = g}

\* findOne: the first matching document in natural (insertion) order
First(docs) == CHOOSE a \in docs : \A b \in docs : a._id <= b._id

\* an insertOne that ignores the unique index on guid
NoUniqueIndex(coll, g) == FALSE

\* the unique index on RssArticle.guid: insertOne fails with code 11000
DuplicateKey(coll, g) == ByGuid(coll, g) # {}

\* ------------------------------------------------------------------- tasks
\* a call that has not been made yet
IdleTask ==
    [op |-> "none", pc |-> "idle", feedId |-> 0, items |-> <<>>, pos |-> 1,
     insertedId |-> 0, stamp |-> NULL, metadata |-> NULL,
     results |-> [created |-> 0, skipped |-> 0, errors |-> 0],
     snap |-> {}, parent |-> NULL, prev |-> <<>>,
     feedIds |-> <<>>, startDate |-> 0, endDate |-> 0, t0 |-> 0,
     found |-> <<>>, stale |-> <<>>, limit |-> 0, out |-> <<>>,
     owner |-> 0, url |-> 0, id |-> 0,
     req |-> <<>>, http |-> 0, modelCalls |-> 0]

\* the generation page before it is opened
ClosedPage ==
    [pc |-> "closed", params |-> FALSE, hasStarted |-> FALSE, preparing |-> 0,
     isLoading |-> FALSE, object |-> "none", error |-> FALSE,
     hasTimedOut |-> FALSE, dirty |-> FALSE, submits |-> 0, triggers |-> 0]

Final == {"fulfilled", "rejected", "del_done", "returned", "no_content"}

\* calls are numbered in the order in which they are made
MayStart(t) ==
    /\ task[t].pc = "idle"
    /\ \A u \in Tasks : u < t => task[u].pc # "idle"

\* task t moves to record r
Step(t, r) == task' = [task EXCEPT ![t] = r]

\* the article the running createRssArticle call of t is about
Item(t) == task[t].items[task[t].pos]

\* a loop without the catch: an error other than a duplicate key ends the call
TallyOrThrow(t, outcome) ==
    LET r == task[t]
        res == r.results
        res2 == CASE outcome = "created" -> [res EXCEPT !.created = @ + 1]
                  [] outcome = "skipped" -> [res EXCEPT !.skipped = @ + 1]
                  [] OTHER               -> res
        last == r.pos = Len(r.items)
    IN  IF outcome = "errors"
        THEN [r EXCEPT !.insertedId = 0, !.pc = "rejected"]
        ELSE [r EXCEPT !.results = res2,
                       !.pos = @ + 1,
                       !.insertedId = 0,
                       !.stamp = IF last THEN now ELSE @,
                       !.pc = IF last THEN "fs_update" ELSE "ca_find"]

\* bulkCreateRssArticles: tally one createRssArticle outcome, go to next
\* article; after the last, updateFeedLastFetched reads the clock (new Date())
\* and sends its update
Tally(t, outcome) ==
    LET r == task[t]
        res == r.results
        res2 == CASE outcome = "created" -> [res EXCEPT !.created = @ + 1]
                  [] outcome = "skipped" -> [res EXCEPT !.skipped = @ + 1]
                  [] OTHER               -> [res EXCEPT !.errors = @ + 1]
        last == r.pos = Len(r.items)
    IN  [r EXCEPT !.results = res2,
                  !.pos = @ + 1,
                  !.insertedId = 0,
                  !.stamp = IF last THEN now ELSE @,
                  !.pc = IF last THEN "fs_update" ELSE "ca_find"]

\* --------------------------------------------------------- fetchAndStoreFeed
\* what fetchAndParseFeed can return: articles with distinct GUIDs out of G,
\* in the order of the feed document
ContentsOver(G, D) ==
    {s \in UNION {[1..n -> [guid : G, pubDate : D]] : n \in 0..Cardinality(G)} :
        \A i, j \in 1..Len(s) : i < j => s[i].guid < s[j].guid}

\* fetchAndStoreFeed(feedId) is called on its own (a server action)
StartFetch(t, f) ==
    /\ MayStart(t)
    /\ Step(t, [IdleTask EXCEPT !.op = "fetch", !.pc = "fs_find", !.feedId = f])
    /\ UNCHANGED <<feeds, articles, nextId, now, newsletters, settings, page>>

\* findOne({_id: feedId}) finds no feed and fetchAndStoreFeed throws
FetchNotFound(t) ==
    /\ task[t].pc = "fs_find"
    /\ task[t].feedId \notin DOMAIN feeds
    /\ Step(t, [task[t] EXCEPT !.pc = "rejected"])
    /\ UNCHANGED <<feeds, articles, nextId, now, newsletters, settings, page>>

\* a failure path that records the attempt as a fetch
FetchFailedStamped(t) ==
    /\ task[t].pc = "fs_find"
    /\ task[t].feedId \in DOMAIN feeds
    /\ feeds' = [feeds EXCEPT ![task[t].feedId].lastFetched = now]
    /\ Step(t, [task[t] EXCEPT !.pc = "rejected"])
    /\ UNCHANGED <<articles, nextId, now, newsletters, settings, page>>

\* the feed is found, fetchAndParseFeed throws (network failure, timeout,
\* malformed XML)
FetchFailed(t) ==
    /\ task[t].pc = "fs_find"
    /\ task[t].feedId \in DOMAIN feeds
    /\ Step(t, [task[t] EXCEPT !.pc = "rejected"])
    /\ UNCHANGED <<feeds, articles, nextId, now, newsletters, settings, page>>

\* the feed is found and fetchAndParseFeed returns the metadata md and the
\* articles, which are mapped with feedId for bulkCreateRssArticles
FetchParsed(t, its, md) ==
    /\ task[t].pc = "fs_find"
    /\ task[t].feedId \in DOMAIN feeds
    /\ Step(t, [task[t] EXCEPT !.items = its, !.metadata = md,
                  !.stamp = IF its = <<>> THEN now ELSE @,
                  !.pc = IF its = <<>> THEN "fs_update" ELSE "ca_find"])
    /\ UNCHANGED <<feeds, articles, nextId, now, newsletters, settings, page>>

\* ---------------------------------------------------------- createRssArticle
\* findOne({guid}, {projection: sourceFeedIds}) and the branch taken on it
CaFind(t) ==
    /\ task[t].pc = "ca_find"
    /\ LET m == ByGuid(articles, Item(t).guid)
           target == IF m = {} THEN "ca_insert"
                     ELSE IF ~Includes(First(m).sourceFeedIds, task[t].feedId)
                          THEN "ca_update"
                          ELSE "ca_refetch"
       IN  Step(t, [task[t] EXCEPT !.pc = target])
    /\ UNCHANGED <<feeds, articles, nextId, now, newsletters, settings, page>>

\* findOneAndUpdate({guid}, {$addToSet: {sourceFeedIds: feedId}}); a null
\* result throws "Failed to update article"
CaUpdate(t) ==
    /\ task[t].pc = "ca_update"
    /\ LET m == ByGuid(articles, Item(t).guid)
       IN  IF m = {}
           THEN /\ Step(t, Tally(t, "errors"))
                /\ UNCHANGED articles
           ELSE LET a == First(m)
                    b == [a EXCEPT !.sourceFeedIds = AddToSet(@, task[t].feedId)]
                IN  /\ articles' = (articles \ {a}) \cup {b}
                    /\ Step(t, Tally(t, "created"))
    /\ UNCHANGED <<feeds, nextId, now, newsletters, settings, page>>

\* feedId already present: findOne({guid}) again; null throws "Article not found"
CaRefetch(t) ==
    /\ task[t].pc = "ca_refetch"
    /\ Step(t, Tally(t, IF ByGuid(articles, Item(t).guid) = {}
                        THEN "errors" ELSE "created"))
    /\ UNCHANGED <<feeds, articles, nextId, now, newsletters, settings, page>>

\* an inserted document whose sourceFeedIds starts empty
NewArticleUntracked(id, item, f) ==
    [_id |-> id, guid |-> item.guid, feedId |-> f, sourceFeedIds |-> <<>>,
     pubDate |-> item.pubDate]

\* the document createRssArticle inserts for an article of feed f
NewArticle(id, item, f) ==
    [_id |-> id, guid |-> item.guid, feedId |-> f, sourceFeedIds |-> <<f>>,
     pubDate |-> item.pubDate]

\* insertOne({feedId, guid, sourceFeedIds: [feedId], ...}); a duplicate key
\* error (code 11000) is rethrown to bulkCreateRssArticles, which counts skipped
CaInsert(t) ==
    /\ task[t].pc = "ca_insert"
    /\ IF DuplicateKey(articles, Item(t).guid)
       THEN /\ Step(t, Tally(t, "skipped"))
            /\ UNCHANGED <<articles, nextId>>
       ELSE /\ articles' = articles \cup {NewArticle(nextId, Item(t), task[t].feedId)}
            /\ nextId' = nextId + 1
            /\ Step(t, [task[t] EXCEPT !.pc = "ca_findnew", !.insertedId = nextId])
    /\ UNCHANGED <<feeds, now, newsletters, settings, page>>

\* findOne({_id: insertedId}); null throws "Failed to create article"
CaFindNew(t) ==
    /\ task[t].pc = "ca_findnew"
    /\ Step(t, Tally(t, IF \E a \in articles : a._id = task[t].insertedId
                        THEN "created" ELSE "errors"))
    /\ UNCHANGED <<feeds, articles, nextId, now, newsletters, settings, page>>

\* ------------------------------------------------------ updateFeedLastFetched
\* findOneAndUpdate({_id: feedId}, {$set: {lastFetched: new Date()}}) is
\* applied, with the date read when it was sent; a null result throws and
\* fetchAndStoreFeed rejects
FsUpdate(t) ==
    /\ task[t].pc = "fs_update"
    /\ IF task[t].feedId \in DOMAIN feeds
       THEN /\ feeds' = [feeds EXCEPT ![task[t].feedId].lastFetched = task[t].stamp]
            /\ Step(t, [task[t] EXCEPT !.pc = "fulfilled"])
       ELSE /\ UNCHANGED feeds
            /\ Step(t, [task[t] EXCEPT !.pc = "rejected"])
    /\ UNCHANGED <<articles, nextId, now, newsletters, settings, page>>

\* --------------------------------------------------------- validateAndAddFeed
\* an RssFeed collection without the unique index on userId + url
NoFeedIndex(fs, user, url) == FALSE

\* the unique index on RssFeed userId + url: insertOne fails with code 11000
DuplicateFeed(fs, user, url) ==
    \E f \in DOMAIN fs : fs[f].userId = user /\ fs[f].url = url

\* validateAndAddFeed(userId, url) is called and validateFeedUrl fetches the URL
SubStart(t, user, url) ==
    /\ MayStart(t)
    /\ Step(t, [IdleTask EXCEPT !.op = "subscribe", !.pc = "sub_validate",
                                !.owner = user, !.url = url])
    /\ UNCHANGED <<feeds, articles, nextId, now, newsletters, settings, page>>

\* validateFeedUrl returns false: "Invalid RSS feed URL or unable to fetch feed"
SubInvalid(t) ==
    /\ task[t].pc = "sub_validate"
    /\ Step(t, [task[t] EXCEPT !.pc = "sub_invalid"])
    /\ UNCHANGED <<feeds, articles, nextId, now, newsletters, settings, page>>

\* validateFeedUrl returns true and the insertOne is sent
SubValid(t) ==
    /\ task[t].pc = "sub_validate"
    /\ Step(t, [task[t] EXCEPT !.pc = "sub_insert"])
    /\ UNCHANGED <<feeds, articles, nextId, now, newsletters, settings, page>>

\* insertOne({userId, url, createdAt, updatedAt}) on RssFeed: a duplicate key
\* error is rethrown; otherwise fetchAndStoreFeed(feedId) is called
SubInsert(t) ==
    /\ task[t].pc = "sub_insert"
    /\ IF DuplicateFeed(feeds, task[t].owner, task[t].url)
       THEN /\ Step(t, [task[t] EXCEPT !.pc = "sub_duplicate"])
            /\ UNCHANGED <<feeds, nextId>>
       ELSE /\ feeds' = [f \in DOMAIN feeds \cup {nextId} |->
                           IF f = nextId
                             THEN [url |-> task[t].url, userId |-> task[t].owner,
                                   meta |-> NULL, lastFetched |-> NULL]
                             ELSE feeds[f]]
            /\ nextId' = nextId + 1
            /\ Step(t, [task[t] EXCEPT !.pc = "fs_find", !.feedId = nextId])
    /\ UNCHANGED <<articles, now, newsletters, settings, page>>

\* fetchAndStoreFeed fulfilled: updateOne sets the metadata of the feed
SubMetadata(t) ==
    /\ task[t].op = "subscribe"
    /\ task[t].pc = "fulfilled"
    /\ feeds' = [f \in DOMAIN feeds |->
                   IF f = task[t].feedId
                     THEN [feeds[f] EXCEPT !.meta = task[t].metadata]
                     ELSE feeds[f]]
    /\ Step(t, [task[t] EXCEPT !.pc = "sub_read"])
    /\ UNCHANGED <<articles, nextId, now, newsletters, settings, page>>

\* findOne({_id: insertedId}), after the metadata update or in the catch block
\* of a failed initial fetch; a missing feed throws "Failed to retrieve feed"
SubRead(t) ==
    /\ task[t].op = "subscribe"
    /\ task[t].pc \in {"sub_read", "rejected"}
    /\ Step(t, [task[t] EXCEPT !.pc = IF task[t].feedId \in DOMAIN feeds
                                        THEN "sub_done" ELSE "sub_failed"])
    /\ UNCHANGED <<feeds, articles, nextId, now, newsletters, settings, page>>

\* ----------------------------------------------------------------- newsletters
\* findOne({_id: id}) on Newsletter
ById(coll, id) == {n \in coll : n._id = id}

\* an authorization check that lets every account through
AnyAccount(n, user) == TRUE

\* newsletterUserId === userId
BelongsTo(n, user) == n.userId = user

\* createNewsletter(data) is called: insertOne({userId, ...})
NlCreate(t, user) ==
    /\ MayStart(t)
    /\ newsletters' = newsletters \cup {[_id |-> nextId, userId |-> user]}
    /\ nextId' = nextId + 1
    /\ Step(t, [IdleTask EXCEPT !.op = "nl_create", !.pc = "nl_findnew",
                                !.owner = user, !.id = nextId])
    /\ UNCHANGED <<feeds, articles, now, settings, page>>

\* findOne({_id: insertedId}); null throws "Failed to create newsletter"
NlCreated(t) ==
    /\ task[t].pc = "nl_findnew"
    /\ LET m == ById(newsletters, task[t].id)
       IN  Step(t, [task[t] EXCEPT !.snap = m,
                       !.pc = IF m = {} THEN "rejected" ELSE "returned"])
    /\ UNCHANGED <<feeds, articles, nextId, now, newsletters, settings, page>>

\* getNewsletterById(id, userId) is called and sends its findOne
NlGet(t, id, user) ==
    /\ MayStart(t)
    /\ Step(t, [IdleTask EXCEPT !.op = "nl_get", !.pc = "nl_get_find",
                                !.owner = user, !.id = id])
    /\ UNCHANGED <<feeds, articles, nextId, now, newsletters, settings, page>>

\* the findOne of getNewsletterById answers: null is returned for no
\* newsletter, "Unauthorized" is thrown for the newsletter of another
\* account, and the newsletter is returned otherwise
NlGetFind(t) ==
    /\ task[t].pc = "nl_get_find"
    /\ LET m == ById(newsletters, task[t].id)
       IN  Step(t, IF m = {} THEN [task[t] EXCEPT !.pc = "returned"]
                   ELSE IF ~BelongsTo(First(m), task[t].owner)
                          THEN [task[t] EXCEPT !.pc = "unauthorized"]
                   ELSE [task[t] EXCEPT !.snap = m, !.pc = "returned"])
    /\ UNCHANGED <<feeds, articles, nextId, now, newsletters, settings, page>>

\* deleteNewsletter(id, userId) is called and sends its findOne
NlDelete(t, id, user) ==
    /\ MayStart(t)
    /\ Step(t, [IdleTask EXCEPT !.op = "nl_delete", !.pc = "nl_del_find",
                                !.owner = user, !.id = id])
    /\ UNCHANGED <<feeds, articles, nextId, now, newsletters, settings, page>>

\* the findOne of deleteNewsletter answers: "Newsletter not found",
\* "Unauthorized", or the deleteOne is sent
NlDeleteFind(t) ==
    /\ task[t].pc = "nl_del_find"
    /\ LET m == ById(newsletters, task[t].id)
       IN  Step(t, IF m = {} THEN [task[t] EXCEPT !.pc = "not_found"]
                   ELSE IF ~BelongsTo(First(m), task[t].owner)
                          THEN [task[t] EXCEPT !.pc = "unauthorized"]
                   ELSE [task[t] EXCEPT !.snap = m, !.pc = "nl_del_one"])
    /\ UNCHANGED <<feeds, articles, nextId, now, newsletters, settings, page>>

\* deleteOne({_id: id}); the newsletter read before is returned
NlDeleteOne(t) ==
    /\ task[t].pc = "nl_del_one"
    /\ newsletters' = newsletters \ ById(newsletters, task[t].id)
    /\ Step(t, [task[t] EXCEPT !.pc = "returned"])
    /\ UNCHANGED <<feeds, articles, nextId, now, settings, page>>

\* --------------------------------------------------- NewsletterGenerationPage
\* submit(params) of useObject: a generation request is sent and the hook's
\* state changes, which schedules a render
Submit(p) ==
    [p EXCEPT !.submits = @ + 1, !.isLoading = TRUE, !.object = "none",
              !.error = FALSE, !.dirty = TRUE]

\* the auto-start effect; params is a new object in every render, so the
\* effect runs after every render and only hasStartedRef guards it
AutoStart(p) ==
    IF ~p.params \/ p.hasStarted
    THEN p
    ELSE [p EXCEPT !.hasStarted = TRUE, !.preparing = @ + 1]

\* the page is loaded: the query string is parsed, the component mounts and
\* its effects run
PageOpen(valid) ==
    /\ page.pc = "closed"
    /\ page' = AutoStart([ClosedPage EXCEPT !.pc = "open", !.params = valid,
                                            !.triggers = IF valid THEN 1 ELSE 0])
    /\ UNCHANGED <<feeds, articles, nextId, now, task, newsletters, settings>>

\* the component renders again and its effects run
PageRender ==
    /\ page.pc = "open"
    /\ page.dirty
    /\ page' = AutoStart([page EXCEPT !.dirty = FALSE])
    /\ UNCHANGED <<feeds, articles, nextId, now, task, newsletters, settings>>

\* the fetch of /api/newsletter/prepare settles; submit(params) is called in
\* the try block and in the catch block alike
PagePrepared ==
    /\ page.pc = "open"
    /\ page.preparing > 0
    /\ page' = Submit([page EXCEPT !.preparing = @ - 1])
    /\ UNCHANGED <<feeds, articles, nextId, now, task, newsletters, settings>>

\* the stream of a generation ends: with a body, without one, or in error
PageStreamEnd(outcome) ==
    /\ page.pc = "open"
    /\ page.isLoading
    /\ page' = [page EXCEPT !.isLoading = FALSE,
                            !.object = IF outcome = "error" THEN "none" ELSE outcome,
                            !.error = (outcome = "error"),
                            !.dirty = TRUE]
    /\ UNCHANGED <<feeds, articles, nextId, now, task, newsletters, settings>>

\* the three-minute timer fires while the generation is still loading
PageTimeout ==
    /\ page.pc = "open"
    /\ page.isLoading
    /\ ~page.dirty
    /\ ~page.hasTimedOut
    /\ page' = [page EXCEPT !.hasTimedOut = TRUE, !.dirty = TRUE]
    /\ UNCHANGED <<feeds, articles, nextId, now, task, newsletters, settings>>

\* the Generation Incomplete card is on screen
RetryShown(p) ==
    /\ p.pc = "open"
    /\ ~p.dirty
    /\ ~p.isLoading
    /\ p.object = "partial"
    /\ ~p.error

\* one click on Retry Generation
PageRetry ==
    /\ RetryShown(page)
    /\ page.triggers <= MaxRetries
    /\ page' = Submit([page EXCEPT !.hasStarted = FALSE, !.triggers = @ + 1])
    /\ UNCHANGED <<feeds, articles, nextId, now, task, newsletters, settings>>

\* --------------------------------------------------------- upsertUserSettings
\* find({userId}) on UserSettings
ByUser(coll, user) == {d \in coll : d.userId = user}

\* upsertUserSettings(data) is called in the session of account user and
\* awaits auth()
UsStart(t, user, data) ==
    /\ MayStart(t)
    /\ Step(t, [IdleTask EXCEPT !.op = "upsert", !.pc = "us_auth",
                                !.owner = user, !.metadata = data])
    /\ UNCHANGED <<feeds, articles, nextId, now, newsletters, settings, page>>

\* auth() returns the Clerk user id and getUserByClerkId is awaited
UsAuth(t) ==
    /\ task[t].pc = "us_auth"
    /\ Step(t, [task[t] EXCEPT !.pc = "us_user"])
    /\ UNCHANGED <<feeds, articles, nextId, now, newsletters, settings, page>>

\* the database user is found and findOne({userId}) on UserSettings is sent
UsUser(t) ==
    /\ task[t].pc = "us_user"
    /\ Step(t, [task[t] EXCEPT !.pc = "us_find"])
    /\ UNCHANGED <<feeds, articles, nextId, now, newsletters, settings, page>>

\* findOne({userId}) answers and the branch is taken on existingSettings
UsFind(t) ==
    /\ task[t].pc = "us_find"
    /\ Step(t, [task[t] EXCEPT !.pc = IF ByUser(settings, task[t].owner) # {}
                                        THEN "us_update" ELSE "us_insert"])
    /\ UNCHANGED <<feeds, articles, nextId, now, newsletters, settings, page>>

\* findOneAndUpdate({userId}, {$set: data}); a null result throws, and the
\* catch rethrows "Failed to save user settings"
UsUpdate(t) ==
    /\ task[t].pc = "us_update"
    /\ LET m == ByUser(settings, task[t].owner)
       IN  IF m = {}
           THEN /\ Step(t, [task[t] EXCEPT !.pc = "rejected"])
                /\ UNCHANGED settings
           ELSE LET d == First(m)
                IN  /\ settings' = (settings \ {d})
                                     \cup {[d EXCEPT !.data = task[t].metadata]}
                    /\ Step(t, [task[t] EXCEPT !.pc = "returned"])
    /\ UNCHANGED <<feeds, articles, nextId, now, newsletters, page>>

\* insertOne({userId, ...data})
UsInsert(t) ==
    /\ task[t].pc = "us_insert"
    /\ settings' = settings \cup {[_id |-> nextId, userId |-> task[t].owner,
                                    data |-> task[t].metadata]}
    /\ nextId' = nextId + 1
    /\ Step(t, [task[t] EXCEPT !.pc = "us_findnew", !.insertedId = nextId])
    /\ UNCHANGED <<feeds, articles, now, newsletters, page>>

\* findOne({_id: insertedId}); null throws "Failed to create user settings"
UsFindNew(t) ==
    /\ task[t].pc = "us_findnew"
    /\ Step(t, [task[t] EXCEPT
                  !.pc = IF \E d \in settings : d._id = task[t].insertedId
                         THEN "returned" ELSE "rejected"])
    /\ UNCHANGED <<feeds, articles, nextId, now, newsletters, settings, page>>

\* -------------------------------------------------------------- deleteRssFeed
\* $pull of feedId from the sourceFeedIds of every article that holds it
PullFeed(coll, f) == {[a EXCEPT !.sourceFeedIds = Pull(@, f)] : a \in coll}

\* a deleteRssFeed that forgets to delete the unreferenced articles
PurgeNothing(coll) == coll

\* deleteMany({sourceFeedIds: {$size: 0}})
PurgeEmpty(coll) == {a \in coll : Len(a.sourceFeedIds) # 0}

\* deleteRssFeed(feedId) is called: updateMany({sourceFeedIds: feedId}, {$pull})
DelPull(t, f) ==
    /\ MayStart(t)
    /\ f \in DOMAIN feeds
    /\ articles' = PullFeed(articles, f)
    /\ Step(t, [IdleTask EXCEPT !.op = "delete", !.pc = "del_purge", !.feedId = f,
                                !.snap = articles])
    /\ UNCHANGED <<feeds, nextId, now, newsletters, settings, page>>

\* deleteMany of the articles left without feed references
DelPurge(t) ==
    /\ task[t].pc = "del_purge"
    /\ articles' = PurgeEmpty(articles)
    /\ Step(t, [task[t] EXCEPT !.pc = "del_feed"])
    /\ UNCHANGED <<feeds, nextId, now, newsletters, settings, page>>

\* deleteOne({_id: feedId}) on RssFeed
DelFeed(t) ==
    /\ task[t].pc = "del_feed"
    /\ feeds' = [f \in DOMAIN feeds \ {task[t].feedId} |-> feeds[f]]
    /\ Step(t, [task[t] EXCEPT !.pc = "del_done"])
    /\ UNCHANGED <<articles, nextId, now, newsletters, settings, page>>

\* ---------------------------------------------------------- getFeedsToRefresh
\* the elements of a set of numbers in increasing order
RECURSIVE Ascending(_)
Ascending(S) ==
    IF S = {} THEN <<>>
    ELSE LET m == CHOOSE x \in S : \A y \in S : x <= y
         IN  <<m>> \o Ascending(S \ {m})

\* a lookup of the requested ids one by one: a feed once per occurrence of
\* its id
FindEachId(fs, ids) ==
    LET hit == SelectSeq(ids, LAMBDA f : f \in DOMAIN fs)
    IN  [i \in 1..Len(hit) |-> [id |-> hit[i], url |-> fs[hit[i]].url]]

\* find({_id: {$in: feedIds}}, {projection: {_id, url}}): each feed once
FindFeeds(fs, ids) ==
    LET hit == Ascending(DOMAIN fs \cap ToSet(ids))
    IN  [i \in 1..Len(hit) |-> [id |-> hit[i], url |-> fs[hit[i]].url]]

\* a comparison that counts a fetch exactly CACHE_WINDOW ago as too old
StrictlyAfter(lastFetched, threshold) ==
    lastFetched # NULL /\ lastFetched > threshold

\* {lastFetched: {$gte: cacheThreshold}}: a null or missing date never matches
NotBefore(lastFetched, threshold) ==
    lastFetched # NULL /\ lastFetched >= threshold

\* a $match on the requested feed records only, not on all records of the URL
MatchOwnRecords(fs, found, threshold) ==
    {f \in DOMAIN fs : /\ \E i \in 1..Len(found) : found[i].id = f
                       /\ NotBefore(fs[f].lastFetched, threshold)}

\* $match {url: {$in: urlsToCheck}, lastFetched: {$gte: cacheThreshold}}
MatchRecent(fs, found, threshold) ==
    {f \in DOMAIN fs : /\ \E i \in 1..Len(found) : found[i].url = fs[f].url
                       /\ NotBefore(fs[f].lastFetched, threshold)}

\* the largest number of a non-empty set
Max(S) == CHOOSE x \in S : \A y \in S : y <= x

\* $group {_id: "$url", maxLastFetched: {$max: "$lastFetched"}}, then the
\* URLs of the groups whose maxLastFetched is not null
RecentlyFetchedUrls(fs, found, threshold) ==
    LET matched == MatchRecent(fs, found, threshold)
        group == [u \in {fs[f].url : f \in matched} |->
                     Max({fs[f].lastFetched : f \in {x \in matched : fs[x].url = u}})]
    IN  {u \in DOMAIN group : group[u] # NULL}

\* feeds.filter(feed => !recentlyFetchedUrls.has(feed.url)).map(feed => id)
FeedsToRefresh(found, recent) ==
    LET keep == SelectSeq(found, LAMBDA d : d.url \notin recent)
    IN  [i \in 1..Len(keep) |-> keep[i].id]

\* --------------------------------------------- getArticlesByFeedsAndDateRange
\* a find that matches the primary feed only
MatchPrimaryOnly(coll, ids, from, to) ==
    {a \in coll : /\ a.feedId \in ToSet(ids)
                  /\ a.pubDate >= from
                  /\ a.pubDate <= to}

\* find({$or: [{feedId: {$in}}, {sourceFeedIds: {$in}}], pubDate: {$gte, $lte}})
QueryMatch(coll, ids, from, to) ==
    {a \in coll : /\ \/ a.feedId \in ToSet(ids)
                     \/ ToSet(a.sourceFeedIds) \cap ToSet(ids) # {}
                  /\ a.pubDate >= from
                  /\ a.pubDate <= to}

\* the last n elements of a sequence
TakeLast(r, n) == IF Len(r) <= n THEN r ELSE SubSeq(r, Len(r) - n + 1, Len(r))

\* the first n elements of a sequence
Take(r, n) == IF Len(r) <= n THEN r ELSE SubSeq(r, 1, n)

\* .sort({pubDate: -1}).limit(limit): any order of the articles of one date
QueryResults(coll, ids, from, to, limit) ==
    LET m == QueryMatch(coll, ids, from, to)
        n == Cardinality(m)
    IN  {Take(r, limit) :
            r \in {q \in [1..n -> m] :
                     /\ \A i, j \in 1..n : i # j => q[i] # q[j]
                     /\ \A i, j \in 1..n : i < j => q[i].pubDate >= q[j].pubDate}}

\* ---------------------------------------------------- prepareFeedsAndArticles
\* the calls its refresh step started
Kids(t) == {u \in Tasks : task[u].parent = t}

\* getFeedsToRefresh(feedIds) is called on its own: it reads the clock and
\* finds the requested feeds
GfrFind(t, ids) ==
    /\ task[t].pc = "idle"
    /\ Step(t, [IdleTask EXCEPT !.op = "list", !.pc = "gfr_aggregate",
                  !.feedIds = ids, !.t0 = now, !.found = FindFeeds(feeds, ids)])
    /\ UNCHANGED <<feeds, articles, nextId, now, newsletters, settings, page>>

\* prepareFeedsAndArticles({feedIds, startDate, endDate}) is called:
\* getFeedsToRefresh reads the clock and finds the requested feeds
PrepareStart(t, ids, from, to) ==
    /\ task[t].pc = "idle"
    /\ Step(t, [IdleTask EXCEPT !.op = "prepare", !.pc = "gfr_aggregate",
                  !.feedIds = ids, !.startDate = from, !.endDate = to,
                  !.t0 = now, !.found = FindFeeds(feeds, ids)])
    /\ UNCHANGED <<feeds, articles, nextId, now, newsletters, settings, page>>

\* getFeedsToRefresh aggregates the recent fetches per URL and returns the
\* stale feeds; prepareFeedsAndArticles calls fetchAndStoreFeed for each
GfrAggregate(t) ==
    /\ task[t].pc = "gfr_aggregate"
    /\ LET recent == RecentlyFetchedUrls(feeds, task[t].found, task[t].t0 - CACHE_WINDOW)
           refresh == FeedsToRefresh(task[t].found, recent)
           free == Ascending({u \in Tasks : task[u].pc = "idle"})
       IN  IF task[t].op = "list"
           THEN Step(t, [task[t] EXCEPT !.stale = refresh, !.pc = "returned"])
           ELSE /\ Len(refresh) <= Len(free)
                /\ task' = [u \in Calls |->
                       IF u = t
                         THEN [task[t] EXCEPT !.stale = refresh, !.pc = "pf_query"]
                       ELSE IF \E i \in 1..Len(refresh) : free[i] = u
                         THEN LET i == CHOOSE j \in 1..Len(refresh) : free[j] = u
                              IN  [IdleTask EXCEPT !.op = "fetch", !.pc = "fs_find",
                                                   !.feedId = refresh[i], !.parent = t]
                       ELSE task[u]]
    /\ UNCHANGED <<feeds, articles, nextId, now, newsletters, settings, page>>

\* a combinator that settles with the first refresh (Promise.race)
FirstSettled(t) == Kids(t) = {} \/ \E u \in Kids(t) : task[u].pc \in Final

\* Promise.allSettled: every refresh has fulfilled or rejected
AllSettled(t) == \A u \in Kids(t) : task[u].pc \in Final

\* a result check that lets an empty list through
EmptyIsSuccess(r) == "returned"

\* if (articles.length === 0) throw new Error("No articles found ...")
Outcome(r) == IF Len(r) = 0 THEN "no_content" ELSE "returned"

\* Promise.allSettled has settled; getArticlesByFeedsAndDateRange runs with
\* ARTICLE_LIMIT and an empty result throws "No articles found ..."
PfQuery(t) ==
    /\ task[t].pc = "pf_query"
    /\ AllSettled(t)
    /\ \E r \in QueryResults(articles, task[t].feedIds, task[t].startDate,
                            task[t].endDate, ARTICLE_LIMIT) :
          Step(t, [task[t] EXCEPT !.out = r, !.pc = Outcome(r)])
    /\ UNCHANGED <<feeds, articles, nextId, now, newsletters, settings, page>>

\* getArticlesByFeedsAndDateRange(feedIds, startDate, endDate, limit) is
\* called on its own and sends its find
QueryStart(t, ids, from, to, limit) ==
    /\ task[t].pc = "idle"
    /\ Step(t, [IdleTask EXCEPT !.op = "query", !.pc = "q_find",
                                !.feedIds = ids, !.startDate = from,
                                !.endDate = to, !.limit = limit])
    /\ UNCHANGED <<feeds, articles, nextId, now, newsletters, settings, page>>

\* find(...).sort({pubDate: -1}).limit(limit).toArray()
QueryFind(t) ==
    /\ task[t].pc = "q_find"
    /\ \E r \in QueryResults(articles, task[t].feedIds, task[t].startDate,
                            task[t].endDate, task[t].limit) :
          Step(t, [task[t] EXCEPT !.out = r, !.pc = "q_feeds"])
    /\ UNCHANGED <<feeds, articles, nextId, now, newsletters, settings, page>>

\* an article as it is returned: its id, its feed ids, the number of its
\* sources and the feed found by findOne({_id: feedId}), null if there is none
WithFeed(a, fs) ==
    [id |-> a._id, guid |-> a.guid, feedId |-> a.feedId,
     sourceFeedIds |-> a.sourceFeedIds, sourceCount |-> Len(a.sourceFeedIds),
     feed |-> IF a.feedId \in DOMAIN fs
                THEN [id |-> a.feedId, url |-> fs[a.feedId].url] ELSE NULL,
     pubDate |-> a.pubDate]

\* Promise.all(articles.map(...)): every article gets its feed information,
\* in the order of the find, and the list is returned
QueryFeeds(t) ==
    /\ task[t].pc = "q_feeds"
    /\ Step(t, [task[t] EXCEPT
                  !.out = [i \in 1..Len(@) |-> WithFeed(@[i], feeds)],
                  !.pc = "returned"])
    /\ UNCHANGED <<feeds, articles, nextId, now, newsletters, settings, page>>

\* ------------------------------------------- POST /api/newsletter/generate-stream
\* the body of call t, parsed by req.json(): feedIds is missing, a value that
\* is not an array (a string), or an array; the dates are missing (NULL) or set
Body(t) == task[t].req[1]

\* feedIds.length in the log of the request parameters throws a TypeError
\* when feedIds is undefined
LengthThrows(b) == b.kind = "missing"

\* !feedIds || !Array.isArray(feedIds) || feedIds.length === 0
BadFeedIds(b) == b.kind # "array" \/ Len(b.feedIds) = 0

\* !startDate || !endDate
BadDates(b) == b.startDate = NULL \/ b.endDate = NULL

\* the handler is called and awaits req.json()
PostReceive(t, b) ==
    /\ task[t].pc = "idle"
    /\ Step(t, [IdleTask EXCEPT !.op = "post", !.pc = "post_json", !.req = <<b>>])
    /\ UNCHANGED <<feeds, articles, nextId, now, newsletters, settings, page>>

\* the body is parsed: the request parameters are logged, then validated; the
\* outer catch answers a thrown error with status 500, a failed validation is
\* answered with status 400, otherwise getCurrentUser is awaited
PostValidate(t) ==
    /\ task[t].pc = "post_json"
    /\ Step(t, IF LengthThrows(Body(t))
                 THEN [task[t] EXCEPT !.pc = "responded", !.http = 500]
               ELSE IF BadFeedIds(Body(t)) \/ BadDates(Body(t))
                 THEN [task[t] EXCEPT !.pc = "responded", !.http = 400]
               ELSE [task[t] EXCEPT !.pc = "post_user"])
    /\ UNCHANGED <<feeds, articles, nextId, now, newsletters, settings, page>>

\* getCurrentUser returns and getUserSettingsByUserId is awaited
PostUser(t) ==
    /\ task[t].pc = "post_user"
    /\ Step(t, [task[t] EXCEPT !.pc = "post_settings"])
    /\ UNCHANGED <<feeds, articles, nextId, now, newsletters, settings, page>>

\* the settings are fetched and prepareFeedsAndArticles is called:
\* getFeedsToRefresh reads the clock and finds the requested feeds
PostPrepare(t) ==
    /\ task[t].pc = "post_settings"
    /\ Step(t, [task[t] EXCEPT
                  !.op = "prepare", !.pc = "gfr_aggregate",
                  !.feedIds = Body(t).feedIds,
                  !.startDate = Body(t).startDate, !.endDate = Body(t).endDate,
                  !.t0 = now, !.found = FindFeeds(feeds, Body(t).feedIds)])
    /\ UNCHANGED <<feeds, articles, nextId, now, newsletters, settings, page>>

\* prepareFeedsAndArticles threw "No articles found ...": the outer catch
\* answers with status 500
PostNoArticles(t) ==
    /\ task[t].req # <<>>
    /\ task[t].pc = "no_content"
    /\ Step(t, [task[t] EXCEPT !.pc = "responded", !.http = 500])
    /\ UNCHANGED <<feeds, articles, nextId, now, newsletters, settings, page>>

\* the articles are returned but OPENAI_API_KEY is not set: status 500
PostNoKey(t) ==
    /\ task[t].req # <<>>
    /\ task[t].pc = "returned"
    /\ Step(t, [task[t] EXCEPT !.pc = "responded", !.http = 500])
    /\ UNCHANGED <<feeds, articles, nextId, now, newsletters, settings, page>>

\* the prompt is built, streamObject calls the model and the stream response
\* is returned
PostGenerate(t) ==
    /\ task[t].req # <<>>
    /\ task[t].pc = "returned"
    /\ Step(t, [task[t] EXCEPT !.pc = "responded", !.http = 200,
                               !.modelCalls = @ + 1])
    /\ UNCHANGED <<feeds, articles, nextId, now, newsletters, settings, page>>

\* what the caller of prepareFeedsAndArticles call t receives: the returned
\* article list, or the thrown no-articles error
Result(t) == <<task[t].pc, task[t].out>>

\* the generation request is made once more after call t has ended (the
\* refreshes of the finished cycle are over); prev keeps what the caller
\* received and whether a refresh of that cycle had failed
PrepareAgain(t) ==
    /\ task[t].op = "prepare"
    /\ task[t].pc \in {"returned", "no_content"}
    /\ task[t].prev = <<>>
    /\ task' = [u \in Calls |->
           IF u = t
             THEN [IdleTask EXCEPT
                     !.op = "prepare", !.pc = "gfr_aggregate",
                     !.feedIds = task[t].feedIds,
                     !.startDate = task[t].startDate, !.endDate = task[t].endDate,
                     !.t0 = now, !.found = FindFeeds(feeds, task[t].feedIds),
                     !.prev = <<[result |-> Result(t),
                                failed |-> \E k \in Kids(t) : task[k].pc = "rejected"]>>]
           ELSE IdleTask]
    /\ UNCHANGED <<feeds, articles, nextId, now, newsletters, settings, page>>

\* an hour passes
Tick ==
    /\ now < MaxTicks * HOUR_MS
    /\ now' = now + HOUR_MS
    /\ UNCHANGED <<feeds, articles, nextId, task, newsletters, settings, page>>

\* ------------------------------------------------------------ specification
\* a stored article as sequential ingestion by the feeds in srcs leaves it
Stored(g, srcs, d) ==
    [_id |-> g, guid |-> g, feedId |-> srcs[1], sourceFeedIds |-> srcs, pubDate |-> d]

\* the non-empty arrays of distinct feed ids (feeds ingest in the order of
\* their ids: the feeds are interchangeable)
SourceArrays ==
    {s \in UNION {[1..n -> FeedIds] : n \in 1..NumFeeds} :
        \A i, j \in 1..Len(s) : i < j => s[i] < s[j]}

\* the stores that sequential fetches of the subscribed feeds produce
StoresOver(G, D) ==
    {{Stored(g, c[g].srcs, c[g].date) : g \in DOMAIN c} :
        c \in UNION {[H -> [srcs : SourceArrays, date : D]] : H \in SUBSET G}}

\* the feeds that stored something in S
Sources(S) == UNION {ToSet(a.sourceFeedIds) : a \in S}

\* the feeds are subscribed, each under its own URL; the feeds that stored
\* articles fetched them at time 0, the others were never fetched
InitOver(G) ==
    /\ articles \in StoresOver(G, {1})
    /\ feeds = [f \in FeedIds |->
                  [url |-> f, userId |-> f, meta |-> 1,
                   lastFetched |-> IF f \in Sources(articles) THEN 0 ELSE NULL]]
    /\ nextId = Cardinality(Guids \cup SeqGuids) + 1
    /\ now = 0
    /\ task = [t \in Calls |-> IdleTask]
    /\ newsletters = {}
    /\ settings = {}
    /\ page = ClosedPage

\* a step of call t, the origins serving one of the feed documents in C with
\* the metadata stored at subscription
TaskNext(t, C) ==
    \/ \E f \in FeedIds : StartFetch(t, f)
    \/ FetchNotFound(t)
    \/ FetchFailed(t)
    \/ \E its \in C : FetchParsed(t, its, 1)
    \/ CaFind(t)
    \/ CaUpdate(t)
    \/ CaRefetch(t)
    \/ CaInsert(t)
    \/ CaFindNew(t)
    \/ FsUpdate(t)
    \/ \E f \in FeedIds : DelPull(t, f)
    \/ DelPurge(t)
    \/ DelFeed(t)

\* the calls interleave at every database round trip
Init == InitOver(Guids)

Next == \E t \in Tasks : TaskNext(t, ContentsOver(Guids, {1}))

Spec == Init /\ [][Next]_vars

\* every call that was made has returned or thrown
Quiescent == \A t \in Calls : task[t].pc \in Final \cup {"idle"}

\* no other call is running beside t
Quiet(t) == \A u \in Calls \ {t} : task[u].pc \in Final \cup {"idle"}

\* the calls run one after the other, none concurrent with another
InitSeq == InitOver(SeqGuids)

TaskNextSeq(t) ==
    \/ \E f \in FeedIds : Quiet(t) /\ StartFetch(t, f)
    \/ Quiet(t) /\ FetchNotFound(t)
    \/ Quiet(t) /\ FetchFailed(t)
    \/ \E its \in ContentsOver(SeqGuids, {1}) : Quiet(t) /\ FetchParsed(t, its, 1)
    \/ Quiet(t) /\ CaFind(t)
    \/ Quiet(t) /\ CaUpdate(t)
    \/ Quiet(t) /\ CaRefetch(t)
    \/ Quiet(t) /\ CaInsert(t)
    \/ Quiet(t) /\ CaFindNew(t)
    \/ Quiet(t) /\ FsUpdate(t)
    \/ \E f \in FeedIds : Quiet(t) /\ DelPull(t, f)
    \/ Quiet(t) /\ DelPurge(t)
    \/ Quiet(t) /\ DelFeed(t)

NextSeq == \E t \in Tasks : TaskNextSeq(t)

SpecSeq == InitSeq /\ [][NextSeq]_vars

\* URL assignments up to renaming: feed 1 has URL 1, a feed shares the URL
\* of an earlier feed or has the next new one
UrlMaps ==
    {m \in [FeedIds -> FeedIds] :
        \A f \in FeedIds :
            m[f] <= 1 + Max({0} \cup {m[x] : x \in {y \in FeedIds : y < f}})}

\* the feed requests: one to NumFeeds feed ids ($in ignores their order and
\* their repetitions)
Requests == SourceArrays

\* feeds of several owners may share a URL; each was fetched at time 0 or
\* never, and the stored articles (of date 1) come from the fetched ones; the
\* origins now serve the articles with date 2
InitRefresh ==
    /\ \E m \in UrlMaps, last \in [FeedIds -> {NULL, 0}] :
          feeds = [f \in FeedIds |-> [url |-> m[f], userId |-> f, meta |-> 1,
                                      lastFetched |-> last[f]]]
    /\ articles \in {S \in StoresOver(Guids, {1}) :
                        \A f \in Sources(S) : feeds[f].lastFetched # NULL}
    /\ nextId = Cardinality(Guids \cup SeqGuids) + 1
    /\ now = 0
    /\ task = [t \in Calls |-> IdleTask]
    /\ newsletters = {}
    /\ settings = {}
    /\ page = ClosedPage

\* one generation request, made some hours after the last fetches (its round
\* trips take milliseconds); its refreshes of the stale feeds interleave
NextRefresh ==
    \/ task[0].pc = "idle" /\ Tick
    \/ \E ids \in Requests, from \in Dates, to \in Dates :
          from <= to /\ PrepareStart(0, ids, from, to)
    \/ GfrAggregate(0)
    \/ PfQuery(0)
    \/ \E t \in Tasks :
        \/ FetchFailed(t)
        \/ \E its \in ContentsOver(Guids, {2}) : FetchParsed(t, its, 1)
        \/ CaFind(t)
        \/ CaUpdate(t)
        \/ CaRefetch(t)
        \/ CaInsert(t)
        \/ CaFindNew(t)
        \/ FsUpdate(t)

SpecRefresh == InitRefresh /\ [][NextRefresh]_vars

\* the hours of the clock
Hours == {h * HOUR_MS : h \in 0..MaxTicks}

\* getFeedsToRefresh alone, on feeds that share URLs and were fetched at some
\* hour up to now or never
InitFresh ==
    /\ now \in Hours
    /\ \E m \in UrlMaps, last \in [FeedIds -> {NULL} \cup Hours] :
          /\ \A f \in FeedIds : last[f] <= now
          /\ feeds = [f \in FeedIds |-> [url |-> m[f], userId |-> f, meta |-> 1,
                                         lastFetched |-> last[f]]]
    /\ articles = {}
    /\ nextId = Cardinality(Guids \cup SeqGuids) + 1
    /\ task = [t \in Calls |-> IdleTask]
    /\ newsletters = {}
    /\ settings = {}
    /\ page = ClosedPage

NextFresh ==
    \/ \E ids \in Requests : GfrFind(0, ids)
    \/ GfrAggregate(0)

SpecFresh == InitFresh /\ [][NextFresh]_vars

\* the generation request is made twice in a row
NextTwice ==
    \/ NextRefresh
    \/ PrepareAgain(0)

SpecTwice == InitRefresh /\ [][NextTwice]_vars

\* the feed requests of a refresh cycle: the feed ids in any number up to
\* NumFeeds, an id possibly several times
CycleRequests ==
    {s \in UNION {[1..n -> FeedIds] : n \in 1..NumFeeds} :
        \A i, j \in 1..Len(s) : i < j => s[i] <= s[j]}

\* one generation request whose feedIds may name a feed several times, for
\* the articles of all dates
NextCycle ==
    \/ task[0].pc = "idle" /\ Tick
    \/ \E ids \in CycleRequests : PrepareStart(0, ids, 1, 2)
    \/ GfrAggregate(0)
    \/ PfQuery(0)
    \/ \E t \in Tasks :
        \/ FetchFailed(t)
        \/ \E its \in ContentsOver(Guids, {2}) : FetchParsed(t, its, 1)
        \/ CaFind(t)
        \/ CaUpdate(t)
        \/ CaRefetch(t)
        \/ CaInsert(t)
        \/ CaFindNew(t)
        \/ FsUpdate(t)

SpecCycle == InitRefresh /\ [][NextCycle]_vars

\* the accounts that subscribe and the URLs they subscribe to
Owners == {1, 2}
Urls == {1, 2}

\* no feed is subscribed yet and no article stored
InitSubscribe ==
    /\ feeds = <<>>
    /\ articles = {}
    /\ nextId = 1
    /\ now = 0
    /\ task = [t \in Calls |-> IdleTask]
    /\ newsletters = {}
    /\ settings = {}
    /\ page = ClosedPage

\* validateAndAddFeed calls interleave at every round trip; the accounts and
\* the URLs are interchangeable, the first call is owner 1 subscribing to URL 1.
\* The feed a call inserted is found by its fetchAndStoreFeed and is new to
\* every stored article (no feed is deleted here)
NextSubscribe ==
    \E t \in Tasks :
        \/ \E user \in Owners, url \in Urls :
              /\ t = 1 => (user = 1 /\ url = 1)
              /\ SubStart(t, user, url)
        \/ SubInvalid(t)
        \/ SubValid(t)
        \/ SubInsert(t)
        \/ FetchFailed(t)
        \/ \E its \in ContentsOver(Guids, {1}) : FetchParsed(t, its, 1)
        \/ CaFind(t)
        \/ CaUpdate(t)
        \/ CaInsert(t)
        \/ CaFindNew(t)
        \/ FsUpdate(t)
        \/ SubMetadata(t)
        \/ SubRead(t)

SpecSubscribe == InitSubscribe /\ [][NextSubscribe]_vars

\* the ids insertOne may hand out to newsletters
NewsletterIds == 1..(NumTasks + 1)

\* account 1 has saved one newsletter
InitNewsletter ==
    /\ feeds = <<>>
    /\ articles = {}
    /\ nextId = 2
    /\ now = 0
    /\ task = [t \in Calls |-> IdleTask]
    /\ newsletters = {[_id |-> 1, userId |-> 1]}
    /\ settings = {}
    /\ page = ClosedPage

\* the newsletter actions of the accounts interleave at every round trip; a
\* caller names the id of a newsletter that was created (and maybe deleted)
NextNewsletter ==
    \E t \in Tasks :
        \/ \E user \in Owners : NlCreate(t, user)
        \/ NlCreated(t)
        \/ \E id \in NewsletterIds, user \in Owners :
              id < nextId /\ NlGet(t, id, user)
        \/ NlGetFind(t)
        \/ \E id \in NewsletterIds, user \in Owners :
              id < nextId /\ NlDelete(t, id, user)
        \/ NlDeleteFind(t)
        \/ NlDeleteOne(t)

SpecNewsletter == InitNewsletter /\ [][NextNewsletter]_vars

\* nothing is stored yet
InitBulk == InitSeq /\ articles = {}

\* fetches and deletions interleave at every round trip, the origins serving
\* up to two articles
NextBulk == \E t \in Tasks : TaskNext(t, ContentsOver(SeqGuids, {1}))

SpecBulk == InitBulk /\ [][NextBulk]_vars

\* the request bodies: feedIds missing, not an array, or an array of up to
\* NumFeeds feed ids; each date missing or set
Bodies ==
    [kind : {"missing", "text"}, feedIds : {<<>>},
     startDate : {NULL, 1}, endDate : {NULL, 2}]
    \cup [kind : {"array"}, feedIds : {<<>>} \cup Requests,
          startDate : {NULL, 1}, endDate : {NULL, 2}]

\* one request to the generate-stream handler, made some hours after the
\* last fetches; the refreshes of its stale feeds interleave
NextPost ==
    \/ task[0].pc = "idle" /\ Tick
    \/ \E b \in Bodies : PostReceive(0, b)
    \/ PostValidate(0)
    \/ PostUser(0)
    \/ PostPrepare(0)
    \/ GfrAggregate(0)
    \/ PfQuery(0)
    \/ PostNoArticles(0)
    \/ PostNoKey(0)
    \/ PostGenerate(0)
    \/ \E t \in Tasks :
        \/ FetchFailed(t)
        \/ \E its \in ContentsOver(Guids, {2}) : FetchParsed(t, its, 1)
        \/ CaFind(t)
        \/ CaUpdate(t)
        \/ CaRefetch(t)
        \/ CaInsert(t)
        \/ CaFindNew(t)
        \/ FsUpdate(t)

SpecPost == InitRefresh /\ [][NextPost]_vars

\* no account has saved settings yet
InitSettings ==
    /\ feeds = <<>>
    /\ articles = {}
    /\ nextId = 1
    /\ now = 0
    /\ task = [t \in Calls |-> IdleTask]
    /\ newsletters = {}
    /\ settings = {}
    /\ page = ClosedPage

\* upsertUserSettings calls interleave at every round trip; the accounts are
\* interchangeable, the first call is of account 1
NextSettings ==
    \E t \in Tasks :
        \/ \E user \in Owners, data \in Metas :
              /\ t = 1 => user = 1
              /\ UsStart(t, user, data)
        \/ UsAuth(t)
        \/ UsUser(t)
        \/ UsFind(t)
        \/ UsUpdate(t)
        \/ UsInsert(t)
        \/ UsFindNew(t)

SpecSettings == InitSettings /\ [][NextSettings]_vars

\* how the stream of a generation can end
Outcomes == {"body", "partial", "error"}

\* one load of the generation page
NextPage ==
    \/ \E valid \in BOOLEAN : PageOpen(valid)
    \/ PageRender
    \/ PagePrepared
    \/ \E outcome \in Outcomes : PageStreamEnd(outcome)
    \/ PageTimeout
    \/ PageRetry

SpecPage == InitSettings /\ [][NextPage]_vars

\* the articles of a query run: three GUIDs, published on one of three days
QueryGuids == {1, 2, 3}
QueryDates == {1, 2, 3}

\* the stores over the query GUIDs, the GUIDs numbered by publication date
\* (the query does not read the GUID, and articles of one date come in any
\* order)
QueryStores ==
    {S \in StoresOver(QueryGuids, QueryDates) :
        \A a, b \in S : a.guid < b.guid => a.pubDate <= b.pubDate}

\* the limits passed to getArticlesByFeedsAndDateRange
Limits == 1..MaxLimit

\* getArticlesByFeedsAndDateRange alone, on a store left by sequential fetches
InitQuery ==
    /\ articles \in QueryStores
    /\ feeds = [f \in FeedIds |->
                  [url |-> f, userId |-> f, meta |-> 1,
                   lastFetched |-> IF f \in Sources(articles) THEN 0 ELSE NULL]]
    /\ nextId = Cardinality(QueryGuids) + 1
    /\ now = 0
    /\ task = [t \in Calls |-> IdleTask]
    /\ newsletters = {}
    /\ settings = {}
    /\ page = ClosedPage

NextQuery ==
    \/ \E ids \in Requests, from \in QueryDates, to \in QueryDates, limit \in Limits :
          from <= to /\ QueryStart(0, ids, from, to, limit)
    \/ QueryFind(0)
    \/ QueryFeeds(0)

SpecQuery == InitQuery /\ [][NextQuery]_vars

\* time passes and the origins change while the feeds are fetched: the clock
\* advances between any two round trips, and a fetch returns either version
\* of the metadata
NextDrift ==
    \/ Tick
    \/ \E t \in Tasks :
        \/ \E f \in FeedIds : StartFetch(t, f)
        \/ FetchFailed(t)
        \/ \E its \in ContentsOver(Guids, {1}), md \in Metas : FetchParsed(t, its, md)
        \/ CaFind(t)
        \/ CaUpdate(t)
        \/ CaRefetch(t)
        \/ CaInsert(t)
        \/ CaFindNew(t)
        \/ FsUpdate(t)

SpecDrift == Init /\ [][NextDrift]_vars

TypeOK ==
    /\ \A a \in articles : a.guid \in Guids \cup SeqGuids
    /\ \A t \in Calls : task[t].pos <= Len(task[t].items) + 1

\* ------------------------------------------------------------------- claims
\* call t has finished its createRssArticle call for GUID g
Ingested(t, g) ==
    /\ task[t].op = "fetch"
    /\ \E i \in 1..Len(task[t].items) : i < task[t].pos /\ task[t].items[i].guid = g

\* deleteRssFeed was called in this behaviour
SomeDelete == \E t \in Tasks : task[t].op = "delete"

\* C1: once createRssArticle(g, f1) and createRssArticle(g, f2) of distinct
\* feeds have both finished (no feed being deleted), the one stored article
\* of g has sourceFeedIds = {f1, f2}, each feed id exactly once.
C1_BothFeedsAttributed ==
    \A g \in Guids : \A t1, t2 \in Tasks :
        ( /\ Ingested(t1, g) /\ Ingested(t2, g)
          /\ task[t1].feedId # task[t2].feedId
          /\ ~SomeDelete )
        => \E a \in articles :
              /\ ByGuid(articles, g) = {a}
              /\ ToSet(a.sourceFeedIds) = {task[t1].feedId, task[t2].feedId}
              /\ Len(a.sourceFeedIds) = 2

\* C2: at most one article document is stored per GUID, in every state.
C2_OneRecordPerGuid ==
    \A a, b \in articles : a.guid = b.guid => a = b

\* C2 witness: two calls raced to insert the same new GUID, one insert lost
C2_Witness ==
    \E t, u \in Tasks :
        /\ t # u
        /\ task[t].results.skipped = 1
        /\ task[u].results.created = 1
        /\ \E a \in articles : a.guid = task[t].items[1].guid
                                /\ a.sourceFeedIds = <<task[u].feedId>>

\* C3: the duplicate key error of a lost insert race never reaches
\* bulkCreateRssArticles: no call is ever tallied as skipped.
C3_ConflictNeverSurfaces ==
    \A t \in Tasks : task[t].results.skipped = 0

\* feed B is requested by call t and counted fresh although its own record
\* was not fetched within the window of the call
FreshBySibling(t, B) ==
    /\ B \in ToSet(task[t].feedIds) \cap DOMAIN feeds
    /\ ~Includes(task[t].stale, B)
    /\ ~NotBefore(feeds[B].lastFetched, task[t].t0 - CACHE_WINDOW)

\* the stored articles in the range of call t that feed A stored, A another
\* feed record with the URL of B
SiblingArticles(t, B) ==
    {a \in articles :
        /\ a.pubDate >= task[t].startDate
        /\ a.pubDate <= task[t].endDate
        /\ \E A \in ToSet(a.sourceFeedIds) \cap DOMAIN feeds :
              A # B /\ feeds[A].url = feeds[B].url}

\* C4: when prepareFeedsAndArticles([B]) has ended and B was counted fresh
\* only through another feed record A of its URL, the articles A stored in
\* the requested range are all in the result, and the call did not end in
\* the no-articles error while there are such articles.
C4_FreshFeedIsServed ==
    \A B \in FeedIds :
        ( /\ task[0].op = "prepare"
          /\ task[0].pc \in {"returned", "no_content"}
          /\ task[0].feedIds = <<B>>
          /\ FreshBySibling(0, B) )
        => /\ SiblingArticles(0, B) \subseteq ToSet(task[0].out)
           /\ SiblingArticles(0, B) # {} => task[0].pc # "no_content"

\* the lastFetched dates of the feed records (of any owner) with URL u
FetchesOfUrl(u) ==
    {feeds[x].lastFetched : x \in {y \in DOMAIN feeds : feeds[y].url = u}} \ {NULL}

\* URL u was fetched, and its most recent fetch is at most CACHE_WINDOW
\* before the time n
WithinWindow(u, n) ==
    FetchesOfUrl(u) # {} /\ n - Max(FetchesOfUrl(u)) <= CACHE_WINDOW

\* C5: getFeedsToRefresh(feedIds) returns each requested feed id once if the
\* most recent lastFetched over all feed records of its URL is not within
\* CACHE_WINDOW of now or no record of its URL was ever fetched, and returns
\* no other id.
C5_ReturnsExactlyStale ==
    \A t \in Calls :
        (task[t].op = "list" /\ task[t].pc = "returned")
        => /\ ToSet(task[t].stale) =
                  {f \in ToSet(task[t].feedIds) \cap DOMAIN feeds :
                      ~WithinWindow(feeds[f].url, task[t].t0)}
           /\ \A i, j \in 1..Len(task[t].stale) :
                  i # j => task[t].stale[i] # task[t].stale[j]

\* C5 witness: a never-fetched feed B was requested and counted fresh, feed A
\* of its URL having been fetched less than CACHE_WINDOW before
C5_Witness ==
    \E t \in Calls : \E B \in ToSet(task[t].feedIds) :
        /\ task[t].op = "list" /\ task[t].pc = "returned"
        /\ feeds[B].lastFetched = NULL
        /\ ~Includes(task[t].stale, B)
        /\ FetchesOfUrl(feeds[B].url) # {}
        /\ task[t].t0 - Max(FetchesOfUrl(feeds[B].url)) < CACHE_WINDOW

\* feed f is requested by call t and the most recent fetch of its URL is
\* exactly CACHE_WINDOW before the time of the call
AtBoundary(t, f) ==
    /\ task[t].op = "list" /\ task[t].pc = "returned"
    /\ f \in ToSet(task[t].feedIds) \cap DOMAIN feeds
    /\ FetchesOfUrl(feeds[f].url) # {}
    /\ task[t].t0 - Max(FetchesOfUrl(feeds[f].url)) = CACHE_WINDOW

\* C6 as stated: a feed whose URL was last fetched exactly CACHE_WINDOW
\* before now is returned by getFeedsToRefresh as stale.
C6_BoundaryIsStale ==
    \A t \in Calls : \A f \in FeedIds :
        AtBoundary(t, f) => Includes(task[t].stale, f)

\* C6 amended: a feed whose URL was last fetched exactly CACHE_WINDOW before
\* now is counted fresh: getFeedsToRefresh does not return its id.
C6_BoundaryIsFresh ==
    \A t \in Calls : \A f \in FeedIds :
        AtBoundary(t, f) => ~Includes(task[t].stale, f)

\* C6 witness: getFeedsToRefresh returned for a feed at the boundary
C6_Witness ==
    \E t \in Calls : \E f \in FeedIds :
        AtBoundary(t, f) /\ ~Includes(task[t].stale, f)

\* C7: whenever no call is running, the feedId (primary feed) of every stored
\* article is one of its sourceFeedIds.
C7_PrimaryInSources ==
    Quiescent => \A a \in articles : Includes(a.sourceFeedIds, a.feedId)

\* C8: no stored article has an empty sourceFeedIds, in any state, the states
\* between the database steps of deleteRssFeed included.
C8_SourcesNeverEmpty ==
    \A a \in articles : Len(a.sourceFeedIds) > 0

\* C9: once deleteRssFeed(f) and the calls that ran beside it have finished,
\* no stored article has f among its sourceFeedIds.
C9_NoResurrection ==
    Quiescent =>
        \A t \in Tasks :
            task[t].pc = "del_done" =>
                \A a \in articles : ~Includes(a.sourceFeedIds, task[t].feedId)

\* the articles deleteRssFeed(f) must leave of the store S: every article
\* without f among its sources, those whose only source was f removed
WithoutFeed(S, f) ==
    {[a EXCEPT !.sourceFeedIds = SelectSeq(a.sourceFeedIds, LAMBDA x : x # f)] :
        a \in {b \in S : ToSet(b.sourceFeedIds) # {f}}}

\* C10: deleteRssFeed(f) run alone removes f from the sourceFeedIds of every
\* article, deletes the articles whose sourceFeedIds was {f} and keeps the
\* others: one whose sourceFeedIds was {f, g} is stored with exactly {g}.
C10_DeleteRemovesReference ==
    \A t \in Tasks :
        (task[t].pc = "del_done" /\ \A u \in Tasks : u > t => task[u].pc = "idle")
        => articles = WithoutFeed(task[t].snap, task[t].feedId)

\* C10 witness: a delete finished on a store that held an article of f alone
\* and an article of f and g
C10_Witness ==
    \E t \in Tasks :
        /\ task[t].pc = "del_done"
        /\ \A u \in Tasks : u > t => task[u].pc = "idle"
        /\ \E a, b \in task[t].snap :
              /\ ToSet(a.sourceFeedIds) = {task[t].feedId}
              /\ Cardinality(ToSet(b.sourceFeedIds)) = 2
              /\ Includes(b.sourceFeedIds, task[t].feedId)
              /\ \E c \in articles : c._id = b._id /\ Len(c.sourceFeedIds) = 1
              /\ ~\E c \in articles : c._id = a._id

\* call t is inside createRssArticle
InCreate(t) ==
    task[t].pc \in {"ca_find", "ca_update", "ca_refetch", "ca_insert", "ca_findnew"}

\* the article of the GUID call t is ingesting is stored with the feed of t
\* among its sourceFeedIds
AlreadyAttributed(t) ==
    \E a \in ByGuid(articles, Item(t).guid) :
        Includes(a.sourceFeedIds, task[t].feedId)

\* C11: a step of createRssArticle(g, f) taken while the article of g is
\* stored with f among its sourceFeedIds changes no article and adds none.
C11_ReingestIsNoOp ==
    [][\A t \in Tasks :
          (task'[t] # task[t] /\ InCreate(t) /\ AlreadyAttributed(t))
          => articles' = articles]_vars

\* C11 witness: two calls ingested the same GUID for the same feed; one
\* article is stored, with that feed once
C11_Witness ==
    \E t, u \in Tasks : \E g \in Guids :
        /\ t # u
        /\ Ingested(t, g) /\ Ingested(u, g)
        /\ task[t].feedId = task[u].feedId
        /\ task[t].results.created = 1 /\ task[u].results.created = 1
        /\ \E a \in articles :
              ByGuid(articles, g) = {a} /\ a.sourceFeedIds = <<task[t].feedId>>

\* C12: a createRssArticle(g, f) call run alone that finds no article of g
\* goes on to insert, and its insert adds exactly one document to the
\* collection, with guid g, feedId f and sourceFeedIds = [f], and changes
\* no other document.
C12_InsertsOneArticle ==
    [][\A t \in Tasks :
          /\ ( /\ task[t].pc = "ca_find" /\ task'[t] # task[t]
                /\ ByGuid(articles, Item(t).guid) = {} )
             => (task'[t].pc = "ca_insert" /\ articles' = articles)
          /\ (task[t].pc = "ca_insert" /\ task'[t] # task[t])
             => \E a \in articles' :
                   /\ a \notin articles
                   /\ articles' = articles \cup {a}
                   /\ a.guid = Item(t).guid
                   /\ a.feedId = task[t].feedId
                   /\ a.sourceFeedIds = <<task[t].feedId>>
                   /\ task'[t].insertedId = a._id]_vars

\* C12 witness: createRssArticle has just inserted the article of a GUID
C12_Witness ==
    \E t \in Tasks :
        /\ task[t].pc = "ca_findnew"
        /\ \E a \in articles :
              /\ a._id = task[t].insertedId
              /\ ByGuid(articles, Item(t).guid) = {a}
              /\ a.sourceFeedIds = <<task[t].feedId>>

\* prepareFeedsAndArticles call t has returned or thrown
Ended(t) == task[t].op = "prepare" /\ task[t].pc \in {"returned", "no_content"}

\* the refreshes of call t that fulfilled, and those that rejected
Succeeded(t) == {u \in Kids(t) : task[u].pc = "fulfilled"}
Failed(t) == {u \in Kids(t) : task[u].pc = "rejected"}

\* C13: when prepareFeedsAndArticles ends, every stale feed has had its one
\* fetchAndStoreFeed call, each fulfilled or rejected, and succeeded + failed
\* is the number of stale feeds; and the step in which a refresh rejects
\* changes no article and no other call.
C13_RefreshesAreIndependent ==
    /\ [](Ended(0) =>
            /\ \A i \in 1..Len(task[0].stale) :
                  Cardinality({u \in Kids(0) : task[u].feedId = task[0].stale[i]}) = 1
            /\ Kids(0) = Succeeded(0) \cup Failed(0)
            /\ Cardinality(Succeeded(0)) + Cardinality(Failed(0)) = Len(task[0].stale))
    /\ [][\A u \in Tasks :
            (task[u].pc # "rejected" /\ task'[u].pc = "rejected")
            => /\ articles' = articles
               /\ \A v \in Calls \ {u} : task'[v] = task[v]]_vars

\* C13 witness: the refresh of one feed stored an article, the refresh of
\* another failed, and prepareFeedsAndArticles returned the stored article
C13_Witness ==
    \E u, v \in Kids(0) :
        /\ task[u].pc = "fulfilled" /\ task[u].results.created = 1
        /\ task[v].pc = "rejected"
        /\ task[0].pc = "returned"
        /\ \E i \in 1..Len(task[0].out) :
              Includes(task[0].out[i].sourceFeedIds, task[u].feedId)

\* C14: once fetchAndStoreFeed(f) has set lastFetched (no feed being
\* deleted), every article its fetch returned is stored with f among its
\* sourceFeedIds.
C14_StampedAfterIngestion ==
    \A t \in Tasks :
        (task[t].op = "fetch" /\ task[t].pc = "fulfilled" /\ ~SomeDelete)
        => \A i \in 1..Len(task[t].items) :
              \E a \in ByGuid(articles, task[t].items[i].guid) :
                  Includes(a.sourceFeedIds, task[t].feedId)

\* C15: the step in which fetchAndStoreFeed fails at its fetch (feed not
\* found, or fetch or parse failed) changes no feed record and no article;
\* and a feed's lastFetched changes only in the step that ends a
\* fetchAndStoreFeed call of that feed whose fetch returned, to the time that
\* call read.
C15_FailedFetchChangesNothing ==
    [][/\ \A t \in Tasks :
             (task[t].pc = "fs_find" /\ task'[t].pc = "rejected")
             => (feeds' = feeds /\ articles' = articles)
       /\ \A f \in DOMAIN feeds \cap DOMAIN feeds' :
             feeds'[f].lastFetched # feeds[f].lastFetched
             => \E t \in Tasks :
                   /\ task[t].op = "fetch" /\ task[t].feedId = f
                   /\ task[t].pc = "fs_update" /\ task'[t].pc = "fulfilled"
                   /\ feeds'[f].lastFetched = task[t].stamp]_vars

\* C15 witness: the fetch of a never-fetched feed failed and the feed is
\* still never fetched, no article stored for it
C15_Witness ==
    \E t \in Tasks :
        /\ task[t].op = "fetch" /\ task[t].pc = "rejected"
        /\ task[t].feedId \in DOMAIN feeds
        /\ feeds[task[t].feedId].lastFetched = NULL
        /\ \A a \in articles : ~Includes(a.sourceFeedIds, task[t].feedId)

\* C16: the step that ends a successful fetchAndStoreFeed(f) leaves the
\* stored display metadata of f equal to the metadata its fetch returned.
C16_MetadataFollowsFetch ==
    [][\A t \in Tasks :
          (task[t].pc = "fs_update" /\ task'[t].pc = "fulfilled")
          => feeds'[task[t].feedId].meta = task[t].metadata]_vars

\* C17: no step lowers the lastFetched of a feed.
C17_LastFetchedMonotonic ==
    [][\A f \in DOMAIN feeds \cap DOMAIN feeds' :
          feeds[f].lastFetched # NULL
          => feeds'[f].lastFetched >= feeds[f].lastFetched]_vars

\* the stored articles that match the request of call t
Matching(t) ==
    QueryMatch(articles, task[t].feedIds, task[t].startDate, task[t].endDate)

\* C18: prepareFeedsAndArticles returns only a non-empty list, and ends with
\* the no-articles error exactly when no stored article matches the requested
\* feeds and range after the refresh.
C18_EmptyIsNoContent ==
    Ended(0) =>
        /\ task[0].pc = "returned" => Len(task[0].out) > 0
        /\ task[0].pc = "no_content" <=> Matching(0) = {}

\* C18 witness: every stale feed refreshed successfully, nothing matches the
\* range, and the call ended with the no-articles error
C18_Witness ==
    /\ task[0].op = "prepare" /\ task[0].pc = "no_content"
    /\ Len(task[0].stale) = Len(task[0].feedIds)
    /\ Kids(0) # {}
    /\ \A u \in Kids(0) : task[u].pc = "fulfilled"

\* C19: two prepareFeedsAndArticles calls that found articles and give their
\* caller the same result agree on whether a refresh of their cycle failed:
\* the result tells a cycle with failed feeds from a cycle without.
C19_FailuresAreReported ==
    ( /\ Ended(0) /\ task[0].pc = "returned"
      /\ task[0].prev # <<>>
      /\ Result(0) = task[0].prev[1].result )
    => (Failed(0) # {}) = task[0].prev[1].failed

\* C20: getArticlesByFeedsAndDateRange returns only articles with pubDate in
\* [startDate, endDate], at most limit of them, ordered by pubDate descending,
\* and no matching article it leaves out is more recent than one it returns.
C20_QueryIsBoundedAndSorted ==
    (task[0].op = "query" /\ task[0].pc = "returned") =>
        LET out == task[0].out
            ids == {out[i].id : i \in 1..Len(out)}
        IN  /\ \A i \in 1..Len(out) :
                  /\ out[i].pubDate >= task[0].startDate
                  /\ out[i].pubDate <= task[0].endDate
            /\ Len(out) <= task[0].limit
            /\ \A i, j \in 1..Len(out) : i < j => out[i].pubDate >= out[j].pubDate
            /\ \A a \in Matching(0) : a._id \notin ids =>
                  \A i \in 1..Len(out) : out[i].pubDate >= a.pubDate

\* C20 witness: more articles match than the limit allows, of different
\* dates, another article is out of the range, and the call has returned
C20_Witness ==
    /\ task[0].op = "query" /\ task[0].pc = "returned"
    /\ Cardinality(Matching(0)) > task[0].limit
    /\ Len(task[0].out) = task[0].limit
    /\ \E a, b \in Matching(0) : a.pubDate # b.pubDate
    /\ \E a \in articles : a.pubDate > task[0].endDate \/ a.pubDate < task[0].startDate

\* the requested feeds of call t that reference article a, as its primary
\* feed or as one of its sources
Referencing(t, a) ==
    {f \in ToSet(task[t].feedIds) : f = a.feedId \/ Includes(a.sourceFeedIds, f)}

\* C21: getArticlesByFeedsAndDateRange returns only articles that a requested
\* feed references, each at most once, and leaves out an article in the range
\* that a requested feed references only when the limit is reached.
C21_EligibleIffReferenced ==
    (task[0].op = "query" /\ task[0].pc = "returned") =>
        LET out == task[0].out
        IN  /\ \A i \in 1..Len(out) : Referencing(0, out[i]) # {}
            /\ \A i, j \in 1..Len(out) : i # j => out[i].id # out[j].id
            /\ \A a \in articles :
                  ( /\ a.pubDate >= task[0].startDate
                    /\ a.pubDate <= task[0].endDate
                    /\ Referencing(0, a) # {} )
                  => \/ \E i \in 1..Len(out) : out[i].id = a._id
                     \/ Len(out) = task[0].limit

\* C21 witness: a returned article is referenced by two requested feeds,
\* and an article of a requested feed lies after the range
C21_Witness ==
    /\ task[0].op = "query" /\ task[0].pc = "returned"
    /\ \E i \in 1..Len(task[0].out) :
          Cardinality(Referencing(0, task[0].out[i])) >= 2
    /\ \E a \in articles : a.pubDate > task[0].endDate /\ Referencing(0, a) # {}

\* the requested feeds that call t classified as stale
StaleOf(t) == ToSet(task[t].stale)

\* feed f or a feed of the same URL was fetched within the cache window
\* before call t read the clock
FreshAt(t, f) ==
    \E g \in DOMAIN feeds :
        /\ feeds[g].url = feeds[f].url
        /\ feeds[g].lastFetched # NULL
        /\ feeds[g].lastFetched >= task[t].t0 - CACHE_WINDOW

\* C22: in a refresh cycle of prepareFeedsAndArticles only the feeds classified
\* stale are fetched, a requested feed that is not classified stale is fresh,
\* no feed is fetched twice, and when the cycle has ended every stale feed was
\* fetched by exactly one call, which fulfilled or rejected.
C22_FetchedAtMostOnce ==
    (task[0].op = "prepare" /\ task[0].pc \in {"pf_query", "returned", "no_content"}) =>
        /\ \A u \in Kids(0) : task[u].feedId \in StaleOf(0)
        /\ \A f \in ToSet(task[0].feedIds) \ StaleOf(0) : FreshAt(0, f)
        /\ \A u, v \in Kids(0) : u # v => task[u].feedId # task[v].feedId
        /\ \A f \in StaleOf(0) : \E u \in Kids(0) : task[u].feedId = f
        /\ Ended(0) => \A u \in Kids(0) : task[u].pc \in {"fulfilled", "rejected"}

\* C22 witness: the request names a stale feed twice, the cycle has ended and
\* the feed was fetched
C22_Witness ==
    /\ Ended(0)
    /\ \E i, j \in 1..Len(task[0].feedIds) :
          /\ i # j
          /\ task[0].feedIds[i] = task[0].feedIds[j]
          /\ task[0].feedIds[i] \in StaleOf(0)
          /\ \E u \in Kids(0) : task[u].feedId = task[0].feedIds[i]

\* a step of a deleteRssFeed call
DeleteStep == \E t \in Tasks : task'[t].op = "delete" /\ task'[t] # task[t]

\* C23: a step that is not a step of deleteRssFeed deletes no article and
\* leaves the sourceFeedIds of every stored article a superset of what it was.
C23_SourcesOnlyGrow ==
    [][~DeleteStep =>
          \A a \in articles : \E b \in articles' :
              /\ b._id = a._id
              /\ ToSet(a.sourceFeedIds) \subseteq ToSet(b.sourceFeedIds)]_vars

\* C23 witness: a feed that had never been fetched is now among the sources of
\* an article of another feed, and the call that ingested it is about to
\* record the fetch
C23_Witness ==
    \E t \in Tasks :
        /\ task[t].op = "fetch" /\ task[t].pc = "fs_update"
        /\ task[t].results.created > 0
        /\ task[t].feedId \in DOMAIN feeds
        /\ feeds[task[t].feedId].lastFetched = NULL
        /\ \E a \in articles :
              /\ a.feedId # task[t].feedId
              /\ Len(a.sourceFeedIds) >= 2
              /\ Includes(a.sourceFeedIds, task[t].feedId)

\* C24: no two stored feed records have the same owner and the same URL.
C24_OneFeedPerOwnerAndUrl ==
    \A f, g \in DOMAIN feeds :
        (feeds[f].userId = feeds[g].userId /\ feeds[f].url = feeds[g].url) => f = g

\* C24 witness: an account subscribed to a URL, and its second subscription
\* to the same URL ended with the duplicate key error
C24_Witness ==
    \E t, u \in Tasks :
        /\ t # u
        /\ task[t].op = "subscribe" /\ task[t].pc = "sub_done"
        /\ task[u].op = "subscribe" /\ task[u].pc = "sub_duplicate"
        /\ task[u].owner = task[t].owner /\ task[u].url = task[t].url

\* C25: getNewsletterById returns only a newsletter of the account it was
\* called for; a deleteNewsletter call ends with Unauthorized when the
\* newsletter it names is stored for another account; and a newsletter
\* leaves the store only in a step of a deleteNewsletter call of its owner.
C25_OnlyOwnerAccess ==
    /\ [](\A t \in Tasks :
            /\ (task[t].op = "nl_get" /\ task[t].pc = "returned") =>
                  \A n \in task[t].snap : n.userId = task[t].owner
            /\ ( /\ task[t].op = "nl_delete"
                 /\ task[t].pc \in {"returned", "not_found", "unauthorized"}
                 /\ \E n \in ById(newsletters, task[t].id) : n.userId # task[t].owner )
               => task[t].pc = "unauthorized")
    /\ [][\A n \in newsletters \ newsletters' :
            \E t \in Tasks : /\ task[t].op = "nl_delete"
                             /\ task[t].owner = n.userId
                             /\ task[t].id = n._id
                             /\ task'[t] # task[t]]_vars

\* C25 witness: a deleteNewsletter call of another account ended with
\* Unauthorized, a getNewsletterById call of the owner returned the
\* newsletter, and the newsletter is still stored
C25_Witness ==
    \E t, u \in Tasks, n \in newsletters :
        /\ task[t].op = "nl_delete" /\ task[t].pc = "unauthorized"
        /\ task[t].id = n._id /\ task[t].owner # n.userId
        /\ task[u].op = "nl_get" /\ task[u].pc = "returned"
        /\ task[u].snap = {n}

\* the article of GUID g was stored before the calls of this behaviour began
StoredBefore(g) ==
    \E a \in articles : a.guid = g /\ a._id \in Guids \cup SeqGuids

Tallied(t) ==
    task[t].results.created + task[t].results.skipped + task[t].results.errors

\* C27: bulkCreateRssArticles tallies every article it has attempted, in the
\* order of its input; when it has returned, created + skipped + errors is the
\* number of input articles; and no step inside it ends the call with an
\* error or skips an article.
C27_BulkNeverRaises ==
    /\ [](\A t \in Tasks : task[t].op = "fetch" =>
            /\ Tallied(t) = task[t].pos - 1
            /\ task[t].pc \in {"fs_update", "fulfilled"} =>
                  Tallied(t) = Len(task[t].items))
    /\ [][\A t \in Tasks : InCreate(t) =>
            /\ InCreate(t)' \/ task'[t].pc = "fs_update"
            /\ task'[t].items = task[t].items
            /\ task'[t].pos \in {task[t].pos, task[t].pos + 1}
            /\ task'[t].pc = "fs_update" => task[t].pos = Len(task[t].items)]_vars

\* C27 witness: of two input articles the first ended with a duplicate key
\* (it is stored without the feed of the call, and nothing was deleted), the
\* second was created, and bulkCreateRssArticles has returned
C27_Witness ==
    \E t \in Tasks :
        /\ task[t].op = "fetch" /\ task[t].pc \in {"fs_update", "fulfilled"}
        /\ Len(task[t].items) = 2
        /\ task[t].results.skipped = 1
        /\ task[t].results.created = 1
        /\ ~SomeDelete
        /\ \E a \in articles : /\ a.guid = task[t].items[1].guid
                                /\ ~Includes(a.sourceFeedIds, task[t].feedId)

\* the request of call t lacks a usable feedIds array or a date
InvalidRequest(t) ==
    /\ task[t].req # <<>>
    /\ \/ Body(t).kind # "array"
       \/ Len(Body(t).feedIds) = 0
       \/ Body(t).startDate = NULL
       \/ Body(t).endDate = NULL

\* C28: a request whose feedIds is missing, not an array or empty, or whose
\* startDate or endDate is missing, is answered with status 400, and starts no
\* feed refresh, no article query and no model call.
C28_InvalidRequestIs400 ==
    InvalidRequest(0) =>
        /\ task[0].pc = "responded" => task[0].http = 400
        /\ task[0].op = "post"
        /\ Kids(0) = {}
        /\ task[0].out = <<>>
        /\ task[0].modelCalls = 0

\* C29: at most one UserSettings record exists for a user, in every state.
C29_OneSettingsPerUser ==
    \A a, b \in settings : a.userId = b.userId => a = b

\* C30: on the generation page every trigger (the page load with parameters,
\* a click on Retry Generation) starts exactly one generation: submit is never
\* called more often than there were triggers, and once no pre-flight fetch
\* is pending it was called exactly once per trigger.
C30_OneSubmitPerTrigger ==
    /\ page.submits <= page.triggers
    /\ page.preparing = 0 => page.submits = page.triggers

====
